---- MODULE Spec2Model ----
(***************************************************************************)
(* A model of the GPT-2 training script src/gpt_model.py: the sharded      *)
(* data feeder DataLoaderLite and the distributed training loop.           *)
(*                                                                         *)
(* Python sequences are 0-based; TLA+ sequences are 1-based.  A token at   *)
(* Python index i of a shard is element i+1 of the modelled sequence.      *)
(* Positions (current_position, window starts) are kept 0-based as in the  *)
(* source.                                                                 *)
(***************************************************************************)
EXTENDS Integers, Sequences, FiniteSets, TLC

(***************************************************************************)
(* Bounds of the feeder specification.                                     *)
(***************************************************************************)
MaxB == 2
MaxT == 2
MaxProcs == 2
MaxShardLen == 7
MaxCalls == 5
NumTokenIds == 5

\* How many shard files the split holds in the environments explored.
ShardCounts == {0, 1, 2}

(***************************************************************************)
(* Bounds of the training-run specification.  The script's sizes are       *)
(* scaled down: B = 64, T = 1024, max_steps = 19073 * 4, warmup_steps =    *)
(* 715, val_loss_steps = 20 and the evaluation interval 250 in the source. *)
(* total_batch_size keeps the source's ratio 2**19 = 8 * B * T, and the    *)
(* checkpoint interval stays a multiple of the evaluation interval (5000   *)
(* = 20 * 250 in the source).  NumExamples is the number of examples the   *)
(* benchmark's validation file holds.                                      *)
(***************************************************************************)
MaxWorld == 3
B == 1
T == 1
max_steps == 6
warmup_steps == 2
val_loss_steps == 2
eval_every == 2
RunBatches == 6
NumExamples == 3

\* the largest argument get_lr is called with in its own specification
MaxIt == 60

ckpt_every == 2 * eval_every

(***************************************************************************)
(* Bounds of the specification of get_most_likely_row: the number of       *)
(* candidate rows (4 in the benchmark), the padded length of a row and the *)
(* size of the vocabulary.                                                 *)
(***************************************************************************)
NumRows == 2
SeqLen == 3
VocabSize == 2

(***************************************************************************)
(* Bounds of the specification of the sampling loop: num_return_sequences  *)
(* is 4 and max_length 32 in the source; the prompt is what the tokenizer  *)
(* returns for the prompt string, of a length up to MaxPrompt here.        *)
(***************************************************************************)
num_return_sequences == 2
max_length == 3
MaxPrompt == 4
\* the size of the sampler's vocabulary, and the k of its top-k (line 483)
SampleVocabSize == 3
top_k == 2

\* line 357
use_compile == FALSE

total_batch_size == 8 * B * T

\* max_lr = 6e-4, in units of 1e-7
max_lr == 6000

min_lr == max_lr \div 10

VARIABLES
    files,        \* the data directory: split -> sequence of shards (token sequences)
    loaders,      \* rank -> DataLoaderLite object (or a failed construction)
    ret,          \* rank -> what the last feeder call did and returned
    sinceReset,   \* rank -> results of the next_batch calls since the last reset()
    refTrace,     \* rank -> the longest run of results observed after a reset()
    readX,        \* rank -> set of <<shard, position>> returned as input tokens
    passX,        \* rank -> input positions returned in the current pass of the shard
    dupInPass,    \* rank -> an input position was returned twice within one pass
    passWin,      \* rank -> window positions (x and y) returned in the current pass
    donePass,     \* rank -> shard -> window positions of a completed pass (or none)
    env,          \* the launch: whether RANK is set, and WORLD_SIZE
    procs,        \* rank -> the state of that process of the training script
    train_loader, \* rank -> the process's training feeder
    val_loader,   \* rank -> the process's validation feeder
    log_file,     \* log/log.txt, shared by all processes
    fileOps,      \* every mutation of a shared file so far: who did what to which
                  \* file, and how many lines written before it removed
    hist,         \* rank -> what the process has done so far (for the properties)
    checkpoints,  \* log/model_<step>.pt: file name -> the record saved in it
    lr_it,        \* get_lr: the argument of the call
    lr_ret,       \* get_lr: what the call returned or raised
    ex_tokens,    \* get_most_likely_row: row -> token ids
    ex_mask,      \* get_most_likely_row: row -> 0/1 mask of the completion region
    ex_logits,    \* get_most_likely_row: row -> position -> the model's output there
    row_ret,      \* get_most_likely_row: what the call returned
    enc_tokens,   \* sampling: the encoded prompt
    xgen,         \* sampling: the num_return_sequences sequences being extended
    printed,      \* sampling: the token lists decoded and printed at the end
    topk_probs,   \* sampling: per row the k largest probabilities of this iteration
    topk_indices  \* sampling: per row their token ids (<<>> outside an iteration)

fvars == <<loaders, ret, sinceReset, refTrace, readX, passX, dupInPass,
           passWin, donePass>>

tvars == <<env, procs, train_loader, val_loader, log_file, fileOps, hist, checkpoints>>

pvars == <<lr_it, lr_ret, ex_tokens, ex_mask, ex_logits, row_ret, enc_tokens, xgen,
           printed, topk_probs, topk_indices>>

vars == <<files, fvars, tvars, pvars>>

Splits == {"train", "val"}

Min(a, b) == IF a < b THEN a ELSE b

(***************************************************************************)
(* Python slicing s[lo:hi] for 0 <= lo <= hi: out-of-range ends are        *)
(* clamped to the length, never an error.                                  *)
(***************************************************************************)
PySlice(s, lo, hi) ==
    LET a == Min(lo, Len(s))
        b == Min(hi, Len(s))
    IN  [i \in 1..(b - a) |-> s[a + i]]

\* buf[:-1]
ButLast(s) == IF Len(s) = 0 THEN <<>> ELSE [i \in 1..(Len(s) - 1) |-> s[i]]

\* buf[1:]
ButFirst(s) == IF Len(s) = 0 THEN <<>> ELSE [i \in 1..(Len(s) - 1) |-> s[i + 1]]

(***************************************************************************)
(* tensor.view(B, T): row-major reshape; raises when the element count is  *)
(* not B*T.                                                                *)
(***************************************************************************)
View(flat, nb, nt) ==
    IF Len(flat) = nb * nt
    THEN [ok |-> TRUE,
          rows |-> [b \in 1..nb |-> [t \in 1..nt |-> flat[(b - 1) * nt + t]]]]
    ELSE [ok |-> FALSE, rows |-> <<>>]

\* The content of shard file number s: its i-th token (0-based i).
TokenAt(s, i) == (2 * s + i) % NumTokenIds

ShardOfLen(s, n) == [i \in 1..n |-> TokenAt(s, i - 1)]

\* load_tokens(filename): the whole file as a token tensor.
load_tokens(disk, filename) == disk[filename[1]][filename[2]]

(***************************************************************************)
(* DataLoaderLite.reset                                                    *)
(***************************************************************************)
ResetRankOffByOne(disk, self) ==
    [self EXCEPT !.current_shard = 0,
                 !.tokens = load_tokens(disk, self.shards[1]),
                 !.current_position = self.B * self.T * (self.process_rank + 1)]

ResetKeepShard(disk, self) ==
    [self EXCEPT !.tokens = load_tokens(disk, self.shards[self.current_shard + 1]),
                 !.current_position = self.B * self.T * self.process_rank]

Reset(disk, self) ==
    [self EXCEPT !.current_shard = 0,
                 !.tokens = load_tokens(disk, self.shards[1]),
                 !.current_position = self.B * self.T * self.process_rank]

(***************************************************************************)
(* DataLoaderLite.__init__ with the split its callers pass: the shard      *)
(* files of the split in sorted order, the assertion that there is one,    *)
(* then reset().                                                           *)
(***************************************************************************)
DataLoaderLiteNoAssert(disk, nb, nt, process_rank, num_processes, split) ==
    LET shards == [i \in 1..Len(disk[split]) |-> <<split, i>>]
        raw == [B |-> nb, T |-> nt, process_rank |-> process_rank,
                num_processes |-> num_processes, shards |-> shards,
                current_shard |-> 0, tokens |-> <<>>, current_position |-> 0]
    IN  [ok |-> TRUE, self |-> IF Len(shards) > 0 THEN Reset(disk, raw) ELSE raw]

DataLoaderLite(disk, nb, nt, process_rank, num_processes, split) ==
    LET shards == [i \in 1..Len(disk[split]) |-> <<split, i>>]
        raw == [B |-> nb, T |-> nt, process_rank |-> process_rank,
                num_processes |-> num_processes, shards |-> shards,
                current_shard |-> 0, tokens |-> <<>>, current_position |-> 0]
    IN  IF Len(shards) > 0
        THEN [ok |-> TRUE, self |-> Reset(disk, raw)]
        ELSE [ok |-> FALSE, self |-> raw]

(***************************************************************************)
(* DataLoaderLite.next_batch: slice the window at current_position, view   *)
(* it as (B, T) inputs and targets, advance, and only then test whether    *)
(* the following window would run out of the shard.                        *)
(***************************************************************************)
WrapNeededNextRead(self, pos) ==
    pos + (self.B * self.T + 1) > Len(self.tokens)

WrapNeededOffByOne(self, pos) ==
    pos + (self.B * self.T * self.num_processes) > Len(self.tokens)

WrapNeeded(self, pos) ==
    pos + (self.B * self.T * self.num_processes + 1) > Len(self.tokens)

AdvanceNoStride(disk, self) ==
    LET pos == self.current_position + self.B * self.T
    IN  IF WrapNeeded(self, pos)
        THEN LET nxt == (self.current_shard + 1) % Len(self.shards)
             IN  [self EXCEPT !.current_shard = nxt,
                              !.tokens = load_tokens(disk, self.shards[nxt + 1]),
                              !.current_position = self.B * self.T * self.process_rank]
        ELSE [self EXCEPT !.current_position = pos]

Advance(disk, self) ==
    LET pos == self.current_position + self.B * self.T * self.num_processes
    IN  IF WrapNeeded(self, pos)
        THEN LET nxt == (self.current_shard + 1) % Len(self.shards)
             IN  [self EXCEPT !.current_shard = nxt,
                              !.tokens = load_tokens(disk, self.shards[nxt + 1]),
                              !.current_position = self.B * self.T * self.process_rank]
        ELSE [self EXCEPT !.current_position = pos]

NextBatchCheckFirst(disk, self) ==
    LET nxt == (self.current_shard + 1) % Len(self.shards)
        cur == IF WrapNeeded(self, self.current_position)
               THEN [self EXCEPT !.current_shard = nxt,
                                 !.tokens = load_tokens(disk, self.shards[nxt + 1]),
                                 !.current_position = self.B * self.T * self.process_rank]
               ELSE self
        buf == PySlice(cur.tokens, cur.current_position,
                       cur.current_position + cur.B * cur.T + 1)
        x == View(ButLast(buf), cur.B, cur.T)
        y == View(ButFirst(buf), cur.B, cur.T)
    IN  IF x.ok /\ y.ok
        THEN [ok |-> TRUE, x |-> x.rows, y |-> y.rows,
              src |-> <<cur.current_shard, cur.current_position>>,
              self |-> [cur EXCEPT !.current_position =
                                     @ + cur.B * cur.T * cur.num_processes]]
        ELSE [ok |-> FALSE, x |-> <<>>, y |-> <<>>,
              src |-> <<cur.current_shard, cur.current_position>>,
              self |-> self]

NextBatch(disk, self) ==
    LET buf == PySlice(self.tokens, self.current_position,
                       self.current_position + self.B * self.T + 1)
        x == View(ButLast(buf), self.B, self.T)
        y == View(ButFirst(buf), self.B, self.T)
    IN  IF x.ok /\ y.ok
        THEN [ok |-> TRUE, x |-> x.rows, y |-> y.rows,
              src |-> <<self.current_shard, self.current_position>>,
              self |-> Advance(disk, self)]
        ELSE [ok |-> FALSE, x |-> <<>>, y |-> <<>>,
              src |-> <<self.current_shard, self.current_position>>,
              self |-> self]


(***************************************************************************)
(* Environments: a data directory whose train split holds n shards of the  *)
(* given lengths.                                                          *)
(***************************************************************************)
DataDir(n, lens) ==
    [sp \in Splits |->
       IF sp = "train" THEN [s \in 1..n |-> ShardOfLen(s, lens[s])] ELSE <<>>]

NoCall == [op |-> "none", ok |-> TRUE, x |-> <<>>, y |-> <<>>, src |-> <<0, 0>>,
           pre |-> <<0, 0>>, preOver |-> FALSE, preLen |-> 0]

Ranks == DOMAIN loaders

\* no pure function of the script is being applied
NoCalls ==
    /\ lr_it = 0
    /\ lr_ret = [kind |-> "none", value |-> 0]
    /\ ex_tokens = <<>>
    /\ ex_mask = <<>>
    /\ ex_logits = <<>>
    /\ row_ret = [done |-> FALSE, pred_norm |-> 0]
    /\ enc_tokens = <<>>
    /\ xgen = <<>>
    /\ printed = <<>>
    /\ topk_probs = <<>>
    /\ topk_indices = <<>>

InitHistory(rs, n) ==
    /\ ret = [r \in rs |-> NoCall]
    /\ sinceReset = [r \in rs |-> <<>>]
    /\ refTrace = [r \in rs |-> <<>>]
    /\ readX = [r \in rs |-> {}]
    /\ passX = [r \in rs |-> {}]
    /\ dupInPass = [r \in rs |-> FALSE]
    /\ passWin = [r \in rs |-> {}]
    /\ donePass = [r \in rs |-> [s \in 0..(n - 1) |-> [done |-> FALSE, win |-> {}]]]
    /\ env = [ddp |-> FALSE, world |-> 0]
    /\ procs = <<>>
    /\ train_loader = <<>>
    /\ val_loader = <<>>
    /\ log_file = [exists |-> FALSE, lines |-> <<>>]
    /\ fileOps = {}
    /\ hist = <<>>
    /\ checkpoints = <<>>

\* no feeder exists and no process of the script has been launched
NoRun ==
    /\ files = <<>>
    /\ loaders = <<>>
    /\ InitHistory({}, 0)

CallRecord(self, res) ==
    [op |-> "next_batch", ok |-> res.ok, x |-> res.x, y |-> res.y, src |-> res.src,
     pre |-> <<self.current_shard, self.current_position>>,
     preOver |-> self.current_position
                   + (self.B * self.T * self.num_processes + 1) > Len(self.tokens),
     preLen |-> Len(self.tokens)]

(***************************************************************************)
(* SpecFeeder: one feeder, of any rank of any world size, driven by an     *)
(* arbitrary sequence of reset() and next_batch() calls.  The results of   *)
(* the calls since the last reset() are recorded, and the longest such run *)
(* is kept as the reference.                                               *)
(***************************************************************************)
InitFeeder ==
    \E nb \in 1..MaxB, nt \in 1..MaxT, np \in 1..MaxProcs, n \in ShardCounts :
      \E rank \in 0..(np - 1), lens \in [1..n -> 0..MaxShardLen] :
        /\ files = DataDir(n, lens)
        /\ loaders = [r \in {rank} |-> DataLoaderLite(files, nb, nt, r, np, "train")]
        /\ InitHistory({rank}, n)
        /\ NoCalls

FeederReset(r) ==
    /\ loaders[r].ok
    /\ loaders' = [loaders EXCEPT ![r].self = Reset(files, loaders[r].self)]
    /\ ret' = [ret EXCEPT ![r] = [NoCall EXCEPT !.op = "reset"]]
    /\ sinceReset' = [sinceReset EXCEPT ![r] = <<>>]
    /\ UNCHANGED <<files, pvars, refTrace, readX, passX, dupInPass, passWin, donePass, tvars>>

FeederNextBatch(r) ==
    /\ loaders[r].ok
    /\ Len(sinceReset[r]) < MaxCalls
    /\ LET self == loaders[r].self
           res == NextBatch(files, self)
           trace == Append(sinceReset[r], [ok |-> res.ok, x |-> res.x, y |-> res.y])
       IN  /\ loaders' = [loaders EXCEPT ![r].self = res.self]
           /\ ret' = [ret EXCEPT ![r] = CallRecord(self, res)]
           /\ sinceReset' = [sinceReset EXCEPT ![r] = trace]
           /\ refTrace' = [refTrace EXCEPT ![r] =
                             IF Len(trace) > Len(@) THEN trace ELSE @]
           /\ UNCHANGED <<files, pvars, readX, passX, dupInPass, passWin, donePass, tvars>>

NextFeeder ==
    \/ \E r \in Ranks : FeederReset(r)
    \/ \E r \in Ranks : FeederNextBatch(r)

SpecFeeder == InitFeeder /\ [][NextFeeder]_vars

(***************************************************************************)
(* SpecRanks: the feeders of all ranks of one run, built with the same B,  *)
(* T and shard list, each called in any order.  A pass of a shard runs     *)
(* from the position reset (construction, reset() or a wrap) to the next   *)
(* wrap; the positions returned in it are recorded.                        *)
(***************************************************************************)
InitRanks ==
    \E nb \in 1..MaxB, nt \in 1..MaxT, np \in 1..MaxProcs, n \in ShardCounts :
      \E lens \in [1..n -> 0..MaxShardLen] :
        /\ files = DataDir(n, lens)
        /\ loaders = [r \in 0..(np - 1) |-> DataLoaderLite(files, nb, nt, r, np, "train")]
        /\ InitHistory(0..(np - 1), n)
        /\ NoCalls

RanksReset(r) ==
    /\ loaders[r].ok
    /\ ret[r].op = "next_batch"
    /\ loaders' = [loaders EXCEPT ![r].self = Reset(files, loaders[r].self)]
    /\ ret' = [ret EXCEPT ![r] = [NoCall EXCEPT !.op = "reset"]]
    /\ passX' = [passX EXCEPT ![r] = {}]
    /\ passWin' = [passWin EXCEPT ![r] = {}]
    /\ UNCHANGED <<files, pvars, sinceReset, refTrace, readX, dupInPass, donePass, tvars>>

RanksNextBatch(r) ==
    /\ loaders[r].ok
    /\ LET self == loaders[r].self
           res == NextBatch(files, self)
           BT == self.B * self.T
           xs == {self.current_position + i : i \in 0..(BT - 1)}
           win == xs \cup {self.current_position + BT}
           wrapped == res.self.current_position <= self.current_position
       IN  /\ loaders' = [loaders EXCEPT ![r].self = res.self]
           /\ ret' = [ret EXCEPT ![r] = CallRecord(self, res)]
           /\ IF res.ok
              THEN /\ readX' = [readX EXCEPT ![r] =
                                  @ \cup {<<self.current_shard, p>> : p \in xs}]
                   /\ dupInPass' = [dupInPass EXCEPT ![r] = @ \/ (xs \cap passX[r] # {})]
                   /\ passX' = [passX EXCEPT ![r] = IF wrapped THEN {} ELSE @ \cup xs]
                   /\ passWin' = [passWin EXCEPT ![r] = IF wrapped THEN {} ELSE @ \cup win]
                   /\ donePass' = [donePass EXCEPT ![r][self.current_shard] =
                                     IF wrapped
                                     THEN [done |-> TRUE, win |-> passWin[r] \cup win]
                                     ELSE @]
              ELSE UNCHANGED <<readX, dupInPass, passX, passWin, donePass>>
           /\ UNCHANGED <<files, pvars, sinceReset, refTrace, tvars>>

NextRanks ==
    \/ \E r \in Ranks : RanksReset(r)
    \/ \E r \in Ranks : RanksNextBatch(r)

SpecRanks == InitRanks /\ [][NextRanks]_vars


(***************************************************************************)
(* Properties of the feeder.                                               *)
(***************************************************************************)
NumShards == Len(files["train"])

Stride(self) == self.B * self.T * self.num_processes

BaseOffset(self) == self.B * self.T * self.process_rank

\* The rows of a (B, T) tensor laid out flat again.
Flat(rows, nb, nt) ==
    [k \in 1..(nb * nt) |-> rows[((k - 1) \div nt) + 1][((k - 1) % nt) + 1]]

Returned(r) == ret[r].op = "next_batch" /\ ret[r].ok

\* C1 as stated: a call that starts with current_position + B*T*num_processes + 1
\* beyond the shard's token count first moves to the next shard and the rank's
\* base offset, and the batch it returns comes from there.
C1_CheckBeforeSlice ==
    \A r \in Ranks :
        (Returned(r) /\ ret[r].preOver) =>
            ret[r].src = <<(ret[r].pre[1] + 1) % NumShards, BaseOffset(loaders[r].self)>>

\* C1 amended: the boundary check follows the slice.  A call that returns a batch
\* returns the window at the shard and position held when the call started; it
\* then advances the position by B*T*num_processes and, when the advanced
\* position + B*T*num_processes + 1 exceeds the token count of that shard, moves
\* to the next shard (circular) and the rank's base offset, so that the next call
\* reads the start of the new shard.
C1_CheckAfterSlice ==
    \A r \in Ranks :
        Returned(r) =>
            LET self == loaders[r].self
                sh == ret[r].pre[1]
                pos == ret[r].pre[2]
                BT == self.B * self.T
                adv == pos + Stride(self)
            IN  /\ ret[r].src = ret[r].pre
                /\ Flat(ret[r].x, self.B, self.T)
                     = [k \in 1..BT |-> files["train"][sh + 1][pos + k]]
                /\ IF adv + Stride(self) + 1 > ret[r].preLen
                   THEN /\ self.current_shard = (sh + 1) % NumShards
                        /\ self.current_position = BaseOffset(self)
                        /\ self.tokens = files["train"][self.current_shard + 1]
                   ELSE /\ self.current_shard = sh
                        /\ self.current_position = adv

\* A call started beyond the boundary test, returned a batch of the old shard,
\* and the feeder then moved on to the next shard.
C1_Witness ==
    \E r \in Ranks :
        /\ Returned(r)
        /\ ret[r].preOver
        /\ NumShards = 2
        /\ ret[r].src[1] = 0
        /\ loaders[r].self.current_shard = 1

\* C2: no (shard, position) is returned as an input token by the feeders of two
\* different ranks, and no feeder returns an input position twice within one
\* pass of a shard.
C2_DisjointReads ==
    /\ \A r1, r2 \in Ranks : r1 # r2 => readX[r1] \cap readX[r2] = {}
    /\ \A r \in Ranks : ~dupInPass[r]

\* Two ranks have both read several batches and one has wrapped to the next shard.
C2_Witness ==
    \E r1, r2 \in Ranks :
        /\ r1 # r2
        /\ Cardinality(readX[r1]) >= 3
        /\ Cardinality(readX[r2]) >= 3
        /\ \E p \in readX[r1] : p[1] = 1
        /\ \E s \in DOMAIN donePass[r2] : donePass[r2][s].done

PassesDone(s) == \A r \in Ranks : donePass[r][s].done

PassUnion(s) == UNION {donePass[r][s].win : r \in Ranks}

ShardLen(s) == Len(files["train"][s + 1])

\* C3 as stated: once every rank has completed a pass of a shard, every token of
\* the shard has been returned in some rank's window.
C3_CoversShard ==
    \A s \in 0..(NumShards - 1) :
        PassesDone(s) => PassUnion(s) = 0..(ShardLen(s) - 1)

\* C3 amended: over one full pass the windows of all ranks cover a prefix of the
\* shard without a gap; the tokens left unread by every worker form a tail of
\* fewer than 2*B*T*num_processes tokens.
C3_CoversPrefix ==
    \A s \in 0..(NumShards - 1) :
        PassesDone(s) =>
            LET m == Cardinality(PassUnion(s))
            IN  /\ PassUnion(s) = 0..(m - 1)
                /\ m <= ShardLen(s)
                /\ \A r \in Ranks : ShardLen(s) - m < 2 * Stride(loaders[r].self)

\* All of two ranks completed a pass of a shard and left a tail unread.
C3_Witness ==
    \E s \in 0..(NumShards - 1) :
        /\ PassesDone(s)
        /\ Cardinality(Ranks) = 2
        /\ Cardinality(PassUnion(s)) < ShardLen(s)
        /\ \A r \in Ranks : Cardinality(donePass[r][s].win) >= 4

\* C4: reset() leaves current_shard = 0, shard 0 loaded and current_position =
\* B*T*process_rank whatever came before, and the results of the calls made since
\* the last reset() repeat those of every earlier run from a reset.
C4_ResetDeterministic ==
    \A r \in Ranks :
        /\ ret[r].op = "reset" =>
              /\ loaders[r].self.current_shard = 0
              /\ loaders[r].self.tokens = files["train"][1]
              /\ loaders[r].self.current_position = BaseOffset(loaders[r].self)
        /\ \A i \in 1..Len(sinceReset[r]) : sinceReset[r][i] = refTrace[r][i]

\* A second run from reset(), after a longer first run that had left shard 0,
\* has repeated three batches.
C4_Witness ==
    \E r \in Ranks :
        /\ Len(sinceReset[r]) >= 3
        /\ Len(refTrace[r]) > Len(sinceReset[r])
        /\ Returned(r)
        /\ NumShards = 2
        /\ loaders[r].self.current_shard = 1
        /\ loaders[r].self.process_rank = 1

\* C5 as stated: every next_batch call returns x and y of shape (B, T), y being x
\* shifted by one, from one window of B*T+1 tokens inside a single shard.
C5_AlwaysFullWindow ==
    \A r \in Ranks :
        ret[r].op = "next_batch" =>
            LET self == loaders[r].self
                BT == self.B * self.T
                sh == ret[r].src[1]
                pos == ret[r].src[2]
                shard == files["train"][sh + 1]
            IN  /\ ret[r].ok
                /\ Len(ret[r].x) = self.B /\ Len(ret[r].y) = self.B
                /\ \A b \in 1..self.B : Len(ret[r].x[b]) = self.T /\ Len(ret[r].y[b]) = self.T
                /\ pos + BT + 1 <= Len(shard)
                /\ Flat(ret[r].x, self.B, self.T) = [k \in 1..BT |-> shard[pos + k]]
                /\ Flat(ret[r].y, self.B, self.T) = [k \in 1..BT |-> shard[pos + k + 1]]


(***************************************************************************)
(* The training script (lines 301-534), one process per rank.              *)
(*                                                                         *)
(* Some statements of the script raise as written, whatever the data:      *)
(* the DataLoaderLite calls of lines 348-349 pass split=, which __init__   *)
(* (line 228) does not accept; line 435 calls val_loader.iterate_examples, *)
(* which DataLoaderLite does not define (and the loop body it heads has an  *)
(* unknown keyword at line 442 and an unbound counter name at line 446);   *)
(* line 532 formats with ":.f6".                                           *)
(* Each of these is modelled by two actions: the statement raising, and    *)
(* the statement doing what its body and its callers spell out.  The       *)
(* behaviours of the script as written are among those of the model.       *)
(***************************************************************************)
TRanks == DOMAIN procs

\* which examples of the benchmark the model gets right: none, the first, or all
HitPatterns == {[i \in 1..NumExamples |-> i <= k] : k \in {0, 1, NumExamples}}

RunShardLens == {2 * B * T, RunBatches * B * T + 1}

\* how many shard files the data root holds for the training and validation splits
TrainShardCounts == {0, 2}

ValShardCounts == {0, 1}

NotBuilt == [built |-> FALSE, ok |-> FALSE, self |-> <<>>]

InitProc ==
    [pc |-> "start", err |-> "", ddp |-> FALSE, ddp_rank |-> 0, ddp_world_size |-> 0,
     master_process |-> FALSE, grad_accum_steps |-> 0, step |-> 0, micro_step |-> 0,
     ncoll |-> 0,
     val_loss_accum |-> "none",
     num_total |-> 0, num_correct_norm |-> 0,   \* the benchmark's counters
     sent_total |-> 0, sent_correct |-> 0,      \* this rank's operands of the SUMs
     acc_norm |-> <<0, 0>>,                     \* no quotient yet
     is_ddp_model |-> FALSE,
     require_backward_grad_sync |-> TRUE,    \* the attribute DDP's backward reads
     required_backward_grad_sync |-> "unset", \* the attribute line 513 assigns
     lrs |-> <<max_lr, max_lr>>,
     loss_accum |-> <<>>]                    \* the terms added up; <<>> is 0.0

InitHist ==
    [events |-> <<>>, gradSyncs |-> <<>>, updates |-> 0, accumDone |-> 0,
     lossReduces |-> 0, lrAtUpdate |-> <<0, 0>>, updateStep |-> 0, gas0 |-> 0,
     valSteps |-> {},      \* steps at which the held-out loss evaluation ran
     hellaSteps |-> {},    \* steps at which the benchmark ran
     valWindows |-> <<>>,  \* per completed evaluation: the windows it read
     scored |-> <<>>,      \* examples scored in the benchmark run last started
     saves |-> <<>>,       \* steps of the checkpoint save events
     calls |-> 0,          \* next_batch() calls of the training feeder that returned
     switches |-> 0,       \* how many of them left the position no larger
     inShard |-> 0]        \* calls since the training feeder entered its shard

InitTrain ==
    \E ddp \in BOOLEAN, world \in 1..MaxWorld, hits \in HitPatterns,
       cuda \in BOOLEAN, nccl \in BOOLEAN, nt \in TrainShardCounts, nv \in ValShardCounts :
      \E tl \in [1..nt -> RunShardLens], vl \in [1..nv -> RunShardLens] :
        /\ (~ddp) => (world = 1 /\ nccl)
        /\ files = [sp \in Splits |->
                      IF sp = "train" THEN [s \in 1..nt |-> ShardOfLen(s, tl[s])]
                      ELSE [s \in 1..nv |-> ShardOfLen(s + 2, vl[s])]]
        \* RANK and WORLD_SIZE of the launch; whether CUDA and the nccl backend
        \* are available; the benchmark's outcomes
        /\ env = [ddp |-> ddp, world |-> world, hits |-> hits, cuda |-> cuda,
                  nccl |-> nccl]
        /\ procs = [r \in 0..(world - 1) |-> InitProc]
        /\ train_loader = [r \in 0..(world - 1) |-> NotBuilt]
        /\ val_loader = [r \in 0..(world - 1) |-> NotBuilt]
        /\ log_file = [exists |-> FALSE, lines |-> <<>>]
        /\ fileOps = {}
        /\ hist = [r \in 0..(world - 1) |-> InitHist]
        /\ checkpoints = <<>>
        /\ NoCalls
        /\ loaders = <<>>
        /\ ret = <<>>
        /\ sinceReset = <<>>
        /\ refTrace = <<>>
        /\ readX = <<>>
        /\ passX = <<>>
        /\ dupInPass = <<>>
        /\ passWin = <<>>
        /\ donePass = <<>>

Fail(p, why) == [p EXCEPT !.pc = "failed", !.err = why]

\* line 341
BatchDivides(world) == total_batch_size % (B * T * world) = 0

GradAccumStepsNoWorld(world) == total_batch_size \div (B * T)

\* line 342
GradAccumSteps(world) == total_batch_size \div (B * T * world)

IsEvalStepNoLast(step) == step % eval_every = 0

\* lines 396-398 and 432: step % 250 == 0 or last_step
IsEvalStep(step) == step % eval_every = 0 \/ step = max_steps - 1

\* line 432: where the loop body goes on after the held-out loss section
AfterValPc(step) ==
    IF IsEvalStep(step) /\ ~use_compile THEN "hella" ELSE "train"

\* for step in range(max_steps): where the loop body starts for this step
NextPc(step) ==
    IF step >= max_steps THEN "teardown"
    ELSE IF IsEvalStep(step) THEN "val" ELSE AfterValPc(step)

(***************************************************************************)
(* dist.all_reduce and the gradient all-reduce of DDP's backward are       *)
(* blocking collectives: a process that has entered its n-th collective    *)
(* leaves it once every process of the group has entered its n-th.         *)
(***************************************************************************)
NoBarrier(r) == TRUE

AllEntered(r) == \A q \in TRanks : procs[q].ncoll >= procs[r].ncoll

LaunchModeFallback(e) == IF e.ddp /\ e.cuda /\ e.nccl THEN "ddp" ELSE "single"

\* lines 307-323: RANK selects the multi-process mode, which asserts CUDA (line
\* 310) and initialises the nccl process group (line 311); neither is caught
LaunchMode(e) ==
    IF ~e.ddp THEN "single"
    ELSE IF ~e.cuda THEN "assert_cuda"
    ELSE IF ~e.nccl THEN "init_process_group"
    ELSE "ddp"

\* lines 307-342: the launch mode, the rank, and the batch-size assertion
Setup(r) ==
    /\ procs[r].pc = "start"
    /\ LET mode == LaunchMode(env)
           ddp == mode = "ddp"
           rank == IF ddp THEN r ELSE 0
           world == IF ddp THEN env.world ELSE 1
           p == [procs[r] EXCEPT !.ddp = ddp, !.ddp_rank = rank,
                                 !.ddp_world_size = world,
                                 !.master_process = (rank = 0)]
       IN  IF mode \notin {"ddp", "single"}
           THEN /\ procs' = [procs EXCEPT ![r] = Fail(@, mode)]
                /\ UNCHANGED hist
           ELSE IF BatchDivides(world)
           THEN /\ procs' = [procs EXCEPT ![r] =
                               [p EXCEPT !.grad_accum_steps = GradAccumSteps(world),
                                         !.pc = "loaders"]]
                /\ hist' = [hist EXCEPT ![r].gas0 = GradAccumSteps(world)]
           ELSE /\ procs' = [procs EXCEPT ![r] = Fail(p, "assert_batch")]
                /\ UNCHANGED hist
    /\ UNCHANGED <<files, pvars, fvars, env, checkpoints, train_loader, val_loader, log_file, fileOps>>

\* lines 348-349 as their callers intend: the two feeders of this rank
MakeLoaders(r) ==
    /\ procs[r].pc = "loaders"
    /\ LET p == procs[r]
           tr == DataLoaderLite(files, B, T, p.ddp_rank, p.ddp_world_size, "train")
           va == DataLoaderLite(files, B, T, p.ddp_rank, p.ddp_world_size, "val")
       IN  /\ train_loader' = [train_loader EXCEPT ![r] =
                                 [built |-> TRUE, ok |-> tr.ok, self |-> tr.self]]
           /\ val_loader' = [val_loader EXCEPT ![r] =
                               IF tr.ok
                               THEN [built |-> TRUE, ok |-> va.ok, self |-> va.self]
                               ELSE @]
           /\ procs' = [procs EXCEPT ![r] =
                          IF tr.ok /\ va.ok THEN [p EXCEPT !.pc = "model"]
                          ELSE Fail(p, "no_shards")]
    /\ UNCHANGED <<files, pvars, fvars, env, checkpoints, log_file, fileOps, hist>>

\* line 348 as written: TypeError, unexpected keyword argument 'split'
MakeLoadersRaises(r) ==
    /\ procs[r].pc = "loaders"
    /\ procs' = [procs EXCEPT ![r] = Fail(@, "split_keyword")]
    /\ UNCHANGED <<files, pvars, fvars, env, checkpoints, train_loader, val_loader, log_file, fileOps, hist>>

\* lines 353-387: the model, its DDP wrapper in a multi-process run, the optimizer
CreateModel(r) ==
    /\ procs[r].pc = "model"
    /\ procs' = [procs EXCEPT ![r] =
                   [@ EXCEPT !.is_ddp_model = procs[r].ddp,
                             !.require_backward_grad_sync = TRUE,
                             !.lrs = <<max_lr, max_lr>>,
                             !.pc = "open_log"]]
    /\ UNCHANGED <<files, pvars, fvars, env, checkpoints, train_loader, val_loader, log_file, fileOps, hist>>

\* lines 388-392: every process opens the log file for writing, which empties it
OpenLog(r) ==
    /\ procs[r].pc = "open_log"
    /\ log_file' = [exists |-> TRUE, lines |-> <<>>]
    /\ fileOps' = fileOps \cup {[rank |-> procs[r].ddp_rank, file |-> "log",
                                 op |-> "truncate", lost |-> Len(log_file.lines)]}
    /\ procs' = [procs EXCEPT ![r].pc = NextPc(0)]
    /\ UNCHANGED <<files, pvars, fvars, env, checkpoints, train_loader, val_loader, hist>>


Ev(op, arg) == [op |-> op, arg |-> arg]

\* with open(log_file, "a") as f: f.write(f"{step} <tag> <value>\n")
AppendLine(r, tag, value) ==
    /\ log_file' = [log_file EXCEPT !.lines =
                      Append(@, [text |-> <<procs[r].step, tag, value>>,
                                 by |-> procs[r].ddp_rank])]
    /\ fileOps' = fileOps \cup {[rank |-> procs[r].ddp_rank, file |-> "log",
                                 op |-> "append", lost |-> 0]}

\* n successive next_batch() calls: the feeder afterwards, or the failure
RECURSIVE Batches(_, _, _)
Batches(disk, self, n) ==
    IF n = 0 THEN [ok |-> TRUE, self |-> self, srcs |-> <<>>]
    ELSE LET res == NextBatch(disk, self)
         IN  IF res.ok
             THEN LET rest == Batches(disk, res.self, n - 1)
                  IN  [rest EXCEPT !.srcs = <<res.src>> \o @]
             ELSE [ok |-> FALSE, self |-> res.self, srcs |-> <<>>]

ValBatchesNoReset(disk, self) == Batches(disk, self, val_loss_steps)

\* lines 400-405: val_loader.reset(), then val_loss_steps next_batch() calls
ValBatches(disk, self) == Batches(disk, Reset(disk, self), val_loss_steps)

\* lines 398-412: reset the validation feeder, val_loss_steps forward passes,
\* and in a multi-process run enter the all_reduce of the loss
ValEval(r) ==
    /\ procs[r].pc = "val"
    /\ LET p == procs[r]
           res == ValBatches(files, val_loader[r].self)
           \* the loss of the model as it is now, over the windows read
           q == [p EXCEPT !.val_loss_accum =
                            [step |-> p.step, model |-> hist[r].updates,
                             windows |-> res.srcs, reduced |-> FALSE]]
       IN  /\ val_loader' = [val_loader EXCEPT ![r].self = res.self]
           /\ procs' = [procs EXCEPT ![r] =
                          IF ~res.ok THEN Fail(p, "next_batch")
                          ELSE IF p.ddp
                               THEN [q EXCEPT !.pc = "val_reduce", !.ncoll = @ + 1]
                               ELSE [q EXCEPT !.pc = "val_log"]]
           /\ hist' = [hist EXCEPT ![r] =
                         IF ~res.ok THEN [@ EXCEPT !.valSteps = @ \cup {p.step}]
                         ELSE [@ EXCEPT !.valSteps = @ \cup {p.step},
                                        !.valWindows = Append(@, res.srcs)]]
    /\ UNCHANGED <<files, pvars, fvars, env, checkpoints, train_loader, log_file, fileOps>>

\* line 412: all_reduce(val_loss_accum, AVG) returns
ValReduceDone(r) ==
    /\ procs[r].pc = "val_reduce"
    /\ AllEntered(r)
    /\ procs' = [procs EXCEPT ![r].pc = "val_log",
                              ![r].val_loss_accum.reduced = TRUE]
    /\ UNCHANGED <<files, pvars, fvars, env, checkpoints, train_loader, val_loader, log_file, fileOps, hist>>

IsCheckpointStepAtZero(step) ==
    step % ckpt_every = 0 \/ step = max_steps - 1

\* line 417
IsCheckpointStep(step) ==
    step > 0 /\ (step % ckpt_every = 0 \/ step = max_steps - 1)

\* the decimal digits of a natural number, most significant first
RECURSIVE Digits(_)
Digits(n) == IF n < 10 THEN <<n>> ELSE Append(Digits(n \div 10), n % 10)

\* format specification 0<w>d: zero-padded to at least w digits
ZeroPad(n, w) ==
    LET d == Digits(n)
    IN  IF Len(d) >= w THEN d ELSE [i \in 1..(w - Len(d)) |-> 0] \o d

\* line 419: os.path.join(log_dir, f"model_{step:05d}.pt")
checkpoint_path(step) == <<"log", "model_", ZeroPad(step, 5), ".pt">>

checkpointAfterUpdate(p, h) ==
    [model |-> h.updates + 1, config |-> "GPTConfig", step |-> p.step,
     val_loss |-> p.val_loss_accum]

\* lines 420-426; the model state is identified by the number of updates applied
checkpoint(p, h) ==
    [model |-> h.updates, config |-> "GPTConfig", step |-> p.step,
     val_loss |-> p.val_loss_accum]

\* torch.save(obj, path): creates the file or replaces its content
torch_save(dir, obj, path) ==
    [f \in DOMAIN dir \cup {path} |-> IF f = path THEN obj ELSE dir[f]]

\* lines 413-429: the master logs the validation loss and saves a checkpoint
ValLog(r) ==
    /\ procs[r].pc = "val_log"
    /\ LET p == procs[r]
       IN  IF p.master_process
           THEN /\ log_file' = [log_file EXCEPT !.lines =
                                  Append(@, [text |-> <<p.step, "val", p.val_loss_accum>>,
                                             by |-> p.ddp_rank])]
                /\ IF IsCheckpointStep(p.step)
                   THEN /\ checkpoints' = torch_save(checkpoints, checkpoint(p, hist[r]),
                                                     checkpoint_path(p.step))
                        /\ hist' = [hist EXCEPT ![r].saves = Append(@, p.step)]
                        /\ fileOps' = fileOps
                             \cup {[rank |-> p.ddp_rank, file |-> "log", op |-> "append",
                                    lost |-> 0],
                                   [rank |-> p.ddp_rank, file |-> "checkpoint",
                                    op |-> "write", lost |-> 0]}
                   ELSE /\ fileOps' = fileOps
                             \cup {[rank |-> p.ddp_rank, file |-> "log", op |-> "append",
                                    lost |-> 0]}
                        /\ UNCHANGED <<checkpoints, hist>>
           ELSE UNCHANGED <<log_file, fileOps, checkpoints, hist>>
    /\ procs' = [procs EXCEPT ![r].pc = AfterValPc(procs[r].step)]
    /\ UNCHANGED <<files, pvars, fvars, env, train_loader, val_loader>>

\* line 436: the examples this rank does not skip
Stripe(p) == {i \in 0..(NumExamples - 1) : i % p.ddp_world_size = p.ddp_rank}

\* f[0] + ... + f[n-1]
RECURSIVE SumTo(_, _)
SumTo(f, n) == IF n = 0 THEN 0 ELSE f[n - 1] + SumTo(f, n - 1)

\* dist.all_reduce(t, op=SUM): the sum of the operands of all ranks of the group
all_reduce_SUM(operand) == SumTo(operand, Cardinality(DOMAIN operand))

\* lines 432-451 as intended: score this rank's stripe of the examples, and in a
\* multi-process run enter the all_reduce of num_total
Hella(r) ==
    /\ procs[r].pc = "hella"
    /\ LET p == procs[r]
           mine == Stripe(p)
           nt == Cardinality(mine)
           nc == Cardinality({i \in mine : env.hits[i + 1]})
           q == [p EXCEPT !.num_total = nt, !.num_correct_norm = nc,
                          !.sent_total = nt, !.sent_correct = nc]
       IN  /\ procs' = [procs EXCEPT ![r] =
                          IF p.ddp THEN [q EXCEPT !.pc = "hella_reduce1", !.ncoll = @ + 1]
                          ELSE [q EXCEPT !.pc = "hella_log"]]
           /\ hist' = [hist EXCEPT ![r].hellaSteps = @ \cup {p.step},
                                   ![r].scored = [i \in mine |-> 1]]
    /\ UNCHANGED <<files, pvars, fvars, env, checkpoints, train_loader, val_loader, log_file, fileOps>>

\* line 435 as written: AttributeError, DataLoaderLite has no iterate_examples
HellaRaises(r) ==
    /\ procs[r].pc = "hella"
    /\ procs' = [procs EXCEPT ![r] = Fail(@, "iterate_examples")]
    /\ hist' = [hist EXCEPT ![r].hellaSteps = @ \cup {procs[r].step},
                            ![r].scored = <<>>]
    /\ UNCHANGED <<files, pvars, fvars, env, checkpoints, train_loader, val_loader, log_file, fileOps>>

\* lines 450-451: all_reduce(num_total) returns, all_reduce(num_correct_norm) is entered
HellaReduce1Done(r) ==
    /\ procs[r].pc = "hella_reduce1"
    /\ AllEntered(r)
    /\ procs' = [procs EXCEPT
                   ![r].num_total = all_reduce_SUM([q \in TRanks |-> procs[q].sent_total]),
                   ![r].pc = "hella_reduce2", ![r].ncoll = @ + 1]
    /\ UNCHANGED <<files, pvars, fvars, env, checkpoints, train_loader, val_loader, log_file, fileOps, hist>>

\* line 451: all_reduce(num_correct_norm) returns
HellaReduce2Done(r) ==
    /\ procs[r].pc = "hella_reduce2"
    /\ AllEntered(r)
    /\ procs' = [procs EXCEPT
                   ![r].num_correct_norm =
                       all_reduce_SUM([q \in TRanks |-> procs[q].sent_correct]),
                   ![r].pc = "hella_log"]
    /\ UNCHANGED <<files, pvars, fvars, env, checkpoints, train_loader, val_loader, log_file, fileOps, hist>>

\* lines 454-458: the accuracy, logged by the master; lines 461-495: on some of
\* these steps every rank then samples text, which changes none of this state
HellaLog(r) ==
    /\ procs[r].pc = "hella_log"
    /\ LET p == procs[r]
           acc == <<p.num_correct_norm, p.num_total>>   \* the quotient, unreduced
       IN  IF p.num_total = 0
           THEN /\ procs' = [procs EXCEPT ![r] = Fail(p, "zero_division")]
                /\ UNCHANGED <<log_file, fileOps>>
           ELSE /\ procs' = [procs EXCEPT ![r].acc_norm = acc, ![r].pc = "train"]
                /\ IF p.master_process
                   THEN AppendLine(r, "hella", acc)
                   ELSE UNCHANGED <<log_file, fileOps>>
    /\ UNCHANGED <<files, pvars, fvars, env, checkpoints, train_loader, val_loader, hist>>

\* lines 498-500: model.train(), optimizer.zero_grad(), loss_accum = 0.0
TrainStart(r) ==
    /\ procs[r].pc = "train"
    /\ procs' = [procs EXCEPT ![r].pc = "micro", ![r].micro_step = 0,
                              ![r].loss_accum = <<>>]
    /\ hist' = [hist EXCEPT ![r].events = <<Ev("zero_grad", procs[r].step)>>,
                            ![r].gradSyncs = <<>>]
    /\ UNCHANGED <<files, pvars, fvars, env, checkpoints, train_loader, val_loader, log_file, fileOps>>

(***************************************************************************)
(* The end of one backward pass (line 515) and what follows it without     *)
(* waiting: the next micro-step, or after the last one the entry into      *)
(* all_reduce(loss_accum) (lines 516-517) in a multi-process run.          *)
(***************************************************************************)
AfterBackward(p, h) ==
    LET m == p.micro_step + 1
        hb == [h EXCEPT !.events = Append(@, Ev("backward", p.micro_step))]
    IN  IF m < p.grad_accum_steps
        THEN [p |-> [p EXCEPT !.micro_step = m, !.pc = "micro"], h |-> hb]
        ELSE IF p.ddp
             THEN [p |-> [p EXCEPT !.micro_step = m, !.pc = "loss_reduce",
                                   !.ncoll = @ + 1],
                   h |-> [hb EXCEPT !.accumDone = @ + 1, !.lossReduces = @ + 1]]
             ELSE [p |-> [p EXCEPT !.micro_step = m, !.pc = "clip"],
                   h |-> [hb EXCEPT !.accumDone = @ + 1]]

\* DDP's backward all-reduces the gradients when the wrapper's
\* require_backward_grad_sync is set
BackwardSyncs(p) == p.is_ddp_model /\ p.require_backward_grad_sync

AccumulateLossUnscaled(acc, loss, gas) == Append(acc, [loss |-> loss, div |-> 1])

\* lines 510-511: loss = loss / grad_accum_steps; loss_accum += loss.detach()
AccumulateLoss(acc, loss, gas) == Append(acc, [loss |-> loss, div |-> gas])

\* lines 502-515: fetch a batch, forward, scale and accumulate the loss, assign
\* the synchronisation flag, start backward
MicroStep(r) ==
    /\ procs[r].pc = "micro"
    /\ LET p == procs[r]
           res == NextBatch(files, train_loader[r].self)
           \* the loss of the model as it is now on the batch fetched
           loss == [step |-> p.step, micro_step |-> p.micro_step,
                    model |-> hist[r].updates, window |-> res.src]
           pa == [p EXCEPT !.loss_accum =
                             AccumulateLoss(@, loss, p.grad_accum_steps)]
           q == IF p.ddp
                THEN [pa EXCEPT !.required_backward_grad_sync =
                                  IF p.micro_step = p.grad_accum_steps - 1
                                  THEN "True" ELSE "False"]
                ELSE pa
           switched == res.self.current_position
                         <= train_loader[r].self.current_position
           h == [hist[r] EXCEPT !.events = @ \o <<Ev("fetch", p.micro_step),
                                                   Ev("forward", p.micro_step)>>,
                                !.calls = @ + 1,
                                !.switches = IF switched THEN @ + 1 ELSE @,
                                !.inShard = IF switched THEN 0 ELSE @ + 1]
       IN  IF ~res.ok
           THEN /\ procs' = [procs EXCEPT ![r] = Fail(p, "next_batch")]
                /\ UNCHANGED <<train_loader, hist>>
           ELSE /\ train_loader' = [train_loader EXCEPT ![r].self = res.self]
                /\ IF BackwardSyncs(q)
                   THEN /\ procs' = [procs EXCEPT ![r] =
                                       [q EXCEPT !.pc = "grad_sync", !.ncoll = @ + 1]]
                        /\ hist' = [hist EXCEPT ![r] =
                                      [h EXCEPT !.gradSyncs = Append(@, p.micro_step)]]
                   ELSE /\ procs' = [procs EXCEPT ![r] = AfterBackward(q, h).p]
                        /\ hist' = [hist EXCEPT ![r] = AfterBackward(q, h).h]
    /\ UNCHANGED <<files, pvars, fvars, env, checkpoints, val_loader, log_file, fileOps>>

\* line 515: the gradient all-reduce of backward returns
GradSyncDone(r) ==
    /\ procs[r].pc = "grad_sync"
    /\ AllEntered(r)
    /\ procs' = [procs EXCEPT ![r] = AfterBackward(procs[r], hist[r]).p]
    /\ hist' = [hist EXCEPT ![r] = AfterBackward(procs[r], hist[r]).h]
    /\ UNCHANGED <<files, pvars, fvars, env, checkpoints, train_loader, val_loader, log_file, fileOps>>

\* line 517: all_reduce(loss_accum, AVG) returns
LossReduceDone(r) ==
    /\ procs[r].pc = "loss_reduce"
    /\ AllEntered(r)
    /\ procs' = [procs EXCEPT ![r].pc = "clip"]
    /\ UNCHANGED <<files, pvars, fvars, env, checkpoints, train_loader, val_loader, log_file, fileOps, hist>>


(***************************************************************************)
(* get_lr (lines 372-383) in fixed point: learning rates in units of 1e-7, *)
(* the cosine in units of 1e-4, read from a table of cos(j*pi/12) and      *)
(* interpolated linearly between its entries.                              *)
(***************************************************************************)
CosTable == <<10000, 9659, 8660, 7071, 5000, 2588, 0,
              -2588, -5000, -7071, -8660, -9659, -10000>>

\* cos(pi * num / den) * 10000 for 0 <= num <= den
CosPi(num, den) ==
    LET a == 12 * num
        j == a \div den
        rem == a % den
    IN  IF rem = 0 THEN CosTable[j + 1]
        ELSE CosTable[j + 1] + ((CosTable[j + 2] - CosTable[j + 1]) * rem) \div den

warmup_lrNoPlusOne(it) == (max_lr * it) \div warmup_steps

\* line 375
warmup_lr(it) == (max_lr * (it + 1)) \div warmup_steps

decay_ratioFromZero(it) == <<it, max_steps - warmup_steps>>

\* line 380: the quotient, as <<numerator, denominator>>
decay_ratio(it) == <<it - warmup_steps, max_steps - warmup_steps>>

cosine_lrNoFloor(it) ==
    LET coeff == (10000 + CosPi(decay_ratio(it)[1], decay_ratio(it)[2])) \div 2
    IN  (coeff * max_lr) \div 10000

\* lines 382-383
cosine_lr(it) ==
    LET coeff == (10000 + CosPi(decay_ratio(it)[1], decay_ratio(it)[2])) \div 2
    IN  min_lr + (coeff * (max_lr - min_lr)) \div 10000

\* line 381: assert 0 <= decay_ratio <= 1 fails
get_lr_asserts(it) ==
    /\ it >= warmup_steps
    /\ it <= max_steps
    /\ LET n == decay_ratio(it)[1]
           d == decay_ratio(it)[2]
       IN  IF d > 0 THEN ~(0 <= n /\ n <= d)
           ELSE ~(0 >= n /\ n >= d)

\* the value get_lr returns when its assertion holds
get_lr(it) ==
    IF it < warmup_steps THEN warmup_lr(it)
    ELSE IF it > max_steps THEN min_lr
    ELSE cosine_lr(it)

\* line 518: clip_grad_norm_(model.parameters(), 1.0)
Clip(r) ==
    /\ procs[r].pc = "clip"
    /\ procs' = [procs EXCEPT ![r].pc = "set_lr"]
    /\ hist' = [hist EXCEPT ![r].events = Append(@, Ev("clip", 1))]
    /\ UNCHANGED <<files, pvars, fvars, env, checkpoints, train_loader, val_loader, log_file, fileOps>>

SetLrFirstGroupOnly(p) == <<get_lr(p.step), p.lrs[2]>>

\* lines 520-522: the step's learning rate, written to every parameter group
SetLrGroups(p) == [g \in 1..Len(p.lrs) |-> get_lr(p.step)]

SetLr(r) ==
    /\ procs[r].pc = "set_lr"
    /\ IF get_lr_asserts(procs[r].step)
       THEN /\ procs' = [procs EXCEPT ![r] = Fail(@, "assert_decay_ratio")]
            /\ UNCHANGED hist
       ELSE /\ procs' = [procs EXCEPT ![r].pc = "opt_step",
                                      ![r].lrs = SetLrGroups(procs[r])]
            /\ hist' = [hist EXCEPT ![r].events =
                                      Append(@, Ev("set_lr", get_lr(procs[r].step)))]
    /\ UNCHANGED <<files, pvars, fvars, env, checkpoints, train_loader, val_loader, log_file, fileOps>>

\* line 523: optimizer.step()
OptimizerStep(r) ==
    /\ procs[r].pc = "opt_step"
    /\ procs' = [procs EXCEPT ![r].pc = "log_train"]
    /\ hist' = [hist EXCEPT ![r].events = Append(@, Ev("optimizer_step", procs[r].step)),
                            ![r].updates = @ + 1,
                            ![r].lrAtUpdate = procs[r].lrs,
                            ![r].updateStep = procs[r].step]
    /\ UNCHANGED <<files, pvars, fvars, env, checkpoints, train_loader, val_loader, log_file, fileOps>>

\* lines 524-532 as intended: torch.cuda.synchronize(), which raises where there
\* is no CUDA; the master logs the step's loss; next step
LogTrain(r) ==
    /\ procs[r].pc = "log_train"
    /\ IF ~env.cuda
       THEN /\ procs' = [procs EXCEPT ![r] = Fail(@, "cuda_synchronize")]
            /\ UNCHANGED <<log_file, fileOps>>
       ELSE /\ IF procs[r].master_process
               THEN AppendLine(r, "train", [terms |-> procs[r].loss_accum,
                                            reduced |-> procs[r].ddp])
               ELSE UNCHANGED <<log_file, fileOps>>
            /\ procs' = [procs EXCEPT ![r].step = @ + 1,
                                      ![r].pc = NextPc(procs[r].step + 1)]
    /\ UNCHANGED <<files, pvars, fvars, env, checkpoints, train_loader, val_loader, hist>>

\* line 532 as written: ValueError on the master, invalid format specifier
LogTrainRaises(r) ==
    /\ procs[r].pc = "log_train"
    /\ env.cuda
    /\ procs[r].master_process
    /\ procs' = [procs EXCEPT ![r] = Fail(@, "format_spec")]
    /\ UNCHANGED <<files, pvars, fvars, env, checkpoints, train_loader, val_loader, log_file, fileOps, hist>>

\* lines 533-534: destroy_process_group()
Teardown(r) ==
    /\ procs[r].pc = "teardown"
    /\ procs' = [procs EXCEPT ![r].pc = "done"]
    /\ UNCHANGED <<files, pvars, fvars, env, checkpoints, train_loader, val_loader, log_file, fileOps, hist>>

NextTrain ==
    \/ \E r \in TRanks : Setup(r)
    \/ \E r \in TRanks : MakeLoaders(r)
    \/ \E r \in TRanks : MakeLoadersRaises(r)
    \/ \E r \in TRanks : CreateModel(r)
    \/ \E r \in TRanks : OpenLog(r)
    \/ \E r \in TRanks : ValEval(r)
    \/ \E r \in TRanks : ValReduceDone(r)
    \/ \E r \in TRanks : ValLog(r)
    \/ \E r \in TRanks : Hella(r)
    \/ \E r \in TRanks : HellaRaises(r)
    \/ \E r \in TRanks : HellaReduce1Done(r)
    \/ \E r \in TRanks : HellaReduce2Done(r)
    \/ \E r \in TRanks : HellaLog(r)
    \/ \E r \in TRanks : TrainStart(r)
    \/ \E r \in TRanks : MicroStep(r)
    \/ \E r \in TRanks : GradSyncDone(r)
    \/ \E r \in TRanks : LossReduceDone(r)
    \/ \E r \in TRanks : Clip(r)
    \/ \E r \in TRanks : SetLr(r)
    \/ \E r \in TRanks : OptimizerStep(r)
    \/ \E r \in TRanks : LogTrain(r)
    \/ \E r \in TRanks : LogTrainRaises(r)
    \/ \E r \in TRanks : Teardown(r)

SpecTrain == InitTrain /\ [][NextTrain]_vars


(***************************************************************************)
(* Properties of the training run.                                         *)
(***************************************************************************)
InAccumulation(r) == procs[r].pc \in {"micro", "grad_sync"}

AfterAccumulation(r) ==
    procs[r].pc \in {"loss_reduce", "clip", "set_lr", "opt_step", "log_train"}

\* C6 as stated: in a multi-process run the backward pass of a micro-step
\* all-reduces the gradients only when micro_step = grad_accum_steps - 1, so one
\* gradient synchronisation happens per training step.
C6_SyncOnlyOnLastMicroStep ==
    \A r \in TRanks :
        procs[r].ddp =>
            /\ \A i \in 1..Len(hist[r].gradSyncs) :
                   hist[r].gradSyncs[i] = procs[r].grad_accum_steps - 1
            /\ AfterAccumulation(r) => Len(hist[r].gradSyncs) = 1

\* The phases of step st with gas micro-steps, in order.
CanonAt(i, gas, st) ==
    IF i = 1 THEN Ev("zero_grad", st)
    ELSE IF i <= 1 + 3 * gas
         THEN LET m == (i - 2) \div 3
                  j == (i - 2) % 3
              IN  IF j = 0 THEN Ev("fetch", m)
                  ELSE IF j = 1 THEN Ev("forward", m) ELSE Ev("backward", m)
    ELSE IF i = 2 + 3 * gas THEN Ev("clip", 1)
    ELSE IF i = 3 + 3 * gas THEN Ev("set_lr", get_lr(st))
    ELSE Ev("optimizer_step", st)

StepsUpdated(r) ==
    procs[r].step
      + (IF procs[r].pc = "log_train"
            \/ procs[r].err \in {"format_spec", "cuda_synchronize"} THEN 1 ELSE 0)

\* C7: what a process has done in a training step is always an initial part of:
\* gradients cleared, grad_accum_steps times (fetch a batch, forward, backward),
\* clip to norm 1.0, write get_lr(step), one optimizer update; every optimizer
\* update so far closed one step, and was made with get_lr(step) in every
\* parameter group.
C7_PhaseOrder ==
    \A r \in TRanks :
        LET ev == hist[r].events
            gas == procs[r].grad_accum_steps
        IN  /\ Len(ev) <= 4 + 3 * gas
            /\ \A i \in 1..Len(ev) : ev[i] = CanonAt(i, gas, ev[1].arg)
            /\ (InAccumulation(r) \/ AfterAccumulation(r)) =>
                   (Len(ev) >= 1 /\ ev[1].arg = procs[r].step)
            /\ hist[r].updates = StepsUpdated(r)
            /\ hist[r].updates > 0 =>
                   \A g \in 1..Len(hist[r].lrAtUpdate) :
                       hist[r].lrAtUpdate[g] = get_lr(hist[r].updateStep)

\* A process of a two-process run has made the optimizer update of a step whose
\* learning rate is below the initial one, after all its micro-steps.
C7_Witness ==
    \E r \in TRanks :
        /\ procs[r].ddp_world_size = 2
        /\ procs[r].pc = "log_train"
        /\ procs[r].step >= 2
        /\ get_lr(procs[r].step) < max_lr
        /\ Len(hist[r].events) = 4 + 3 * procs[r].grad_accum_steps

AssertFailed(r) == procs[r].pc = "failed" /\ procs[r].err = "assert_batch"

\* the process stopped at line 310 or 311, before the batch sizes are looked at
LaunchFailed(r) ==
    procs[r].pc = "failed" /\ procs[r].err \in {"assert_cuda", "init_process_group"}

C8_State ==
    \A r \in TRanks :
        /\ AssertFailed(r) =>
              /\ total_batch_size % (B * T * procs[r].ddp_world_size) # 0
              /\ ~train_loader[r].built
              /\ ~val_loader[r].built
              /\ ~procs[r].is_ddp_model
              /\ hist[r].events = <<>>
              /\ hist[r].updates = 0
        /\ (procs[r].pc # "start" /\ ~AssertFailed(r) /\ ~LaunchFailed(r)) =>
              /\ B * T * procs[r].ddp_world_size * procs[r].grad_accum_steps
                   = total_batch_size
              /\ procs[r].grad_accum_steps >= 1

C8_Fixed ==
    \A r \in TRanks :
        procs[r].pc # "start" =>
            procs'[r].grad_accum_steps = procs[r].grad_accum_steps

\* C8: a process either fails the batch-size assertion before it has a feeder, a
\* model or a training step, or its grad_accum_steps satisfies B * T * world_size
\* * grad_accum_steps = total_batch_size with grad_accum_steps >= 1, and the value
\* never changes afterwards.
C8_AccumStepsExact == []C8_State /\ [][C8_Fixed]_vars

\* A process of a two-process run is past its first training step.
C8_Witness ==
    \E r \in TRanks :
        /\ procs[r].ddp_world_size = 2
        /\ procs[r].grad_accum_steps = 4
        /\ procs[r].step >= 1

\* C9 as stated: every creation, truncation, write or append of the log file or
\* of a checkpoint file is done by rank 0.
C9_OnlyMasterWrites ==
    \A o \in fileOps : o.rank = 0

\* C10: no process has made the optimizer update of a step before every process
\* has completed the micro-steps of that step, and no process is in step s+1
\* before every other process has entered the loss reduction of step s.
C10_Lockstep ==
    \A r, q \in TRanks :
        /\ hist[r].updates <= hist[q].accumDone
        /\ r # q => procs[r].step <= hist[q].lossReduces

\* One process has begun step 2 while another is still in the update of step 1.
C10_Witness ==
    \E r, q \in TRanks :
        /\ r # q
        /\ procs[r].step = 2
        /\ procs[q].step = 1
        /\ procs[q].pc = "clip"

\* the steps the loop body runs for
Steps == 0..(max_steps - 1)

\* a multiple of the evaluation interval, or the final step
Cadence(s) == s % eval_every = 0 \/ s = max_steps - 1

\* rank r has gone through the evaluation sections of step s
PastEval(r, s) ==
    \/ procs[r].step > s
    \/ /\ procs[r].step = s
       /\ procs[r].pc \in {"train", "micro", "grad_sync", "loss_reduce", "clip",
                           "set_lr", "opt_step", "log_train"}

(***************************************************************************)
(* C11: the held-out loss evaluation and the benchmark run on the same     *)
(* cadence: on every rank each of them runs at a step if and only if the   *)
(* step is a multiple of the evaluation interval or the final step         *)
(* max_steps - 1, and at no other step.                                    *)
(***************************************************************************)
C11_SameCadence ==
    \A r \in TRanks :
        /\ \A s \in hist[r].valSteps : s \in Steps /\ Cadence(s)
        /\ \A s \in hist[r].hellaSteps : s \in Steps /\ Cadence(s)
        /\ \A s \in Steps :
             (PastEval(r, s) /\ Cadence(s))
                => (s \in hist[r].valSteps /\ s \in hist[r].hellaSteps)

\* a rank has finished the loop: both ran at every step of the cadence, the final
\* step included, and some step was skipped by both
C11_Witness ==
    \E r \in TRanks :
        /\ procs[r].pc = "done"
        /\ hist[r].valSteps = {s \in Steps : Cadence(s)}
        /\ hist[r].hellaSteps = hist[r].valSteps
        /\ (max_steps - 1) % eval_every # 0
        /\ hist[r].valSteps # Steps

(***************************************************************************)
(* C12: every held-out loss evaluation resets the validation feeder first  *)
(* and then reads exactly val_loss_steps batches, so on a rank every       *)
(* evaluation reads the same windows, the first one at the rank's base     *)
(* offset of validation shard 0, whatever the step; it leaves the training *)
(* feeder's current_shard and current_position as they were; the loss is   *)
(* AVG-reduced across the workers of a multi-process run and written to    *)
(* the log by the master only.                                             *)
(***************************************************************************)
C12_State ==
    /\ \A r \in TRanks :
         \A k \in 1..Len(hist[r].valWindows) :
            /\ Len(hist[r].valWindows[k]) = val_loss_steps
            /\ hist[r].valWindows[k] = hist[r].valWindows[1]
            /\ hist[r].valWindows[k][1] = <<0, B * T * procs[r].ddp_rank>>
    /\ \A i \in 1..Len(log_file.lines) :
         LET line == log_file.lines[i]
         IN  line.text[2] = "val"
               => /\ line.by = 0
                  /\ line.text[3].reduced = env.ddp
                  /\ Len(line.text[3].windows) = val_loss_steps

C12_Frame ==
    \A r \in TRanks :
        (procs[r].pc = "val" /\ procs'[r].pc # "val")
            => train_loader'[r] = train_loader[r]

C12_EvalResetsFirst == []C12_State /\ [][C12_Frame]_vars

\* a rank's second evaluation, made after its training feeder has moved on,
\* in a run where the first evaluation left the validation feeder elsewhere
C12_Witness ==
    \E r \in TRanks :
        /\ Len(hist[r].valWindows) >= 2
        /\ procs[r].pc = "val_log"
        /\ procs[r].master_process
        /\ train_loader[r].self.current_position # BaseOffset(train_loader[r].self)
        /\ <<val_loader[r].self.current_shard, val_loader[r].self.current_position>>
             # hist[r].valWindows[1][1]

(***************************************************************************)
(* C13: in the benchmark the examples are striped by index modulo world    *)
(* size: a rank that has been through the benchmark loop of a step has     *)
(* scored exactly the examples i with i mod world_size = rank, each once,  *)
(* so every example is scored exactly once across the ranks; after the SUM *)
(* reductions every rank holds num_total = the number of examples and      *)
(* num_correct_norm = the number of correct predictions, and the accuracy  *)
(* is their quotient.                                                      *)
(***************************************************************************)
C13_StripedAndSummed ==
    \A r \in TRanks :
        /\ (hist[r].hellaSteps # {} /\ procs[r].pc # "hella")
             => hist[r].scored =
                  [i \in {j \in 0..(NumExamples - 1) :
                            j % procs[r].ddp_world_size = procs[r].ddp_rank} |-> 1]
        /\ procs[r].pc = "hella_log"
             => /\ procs[r].num_total = NumExamples
                /\ procs[r].num_correct_norm
                     = Cardinality({i \in 1..NumExamples : env.hits[i]})
        /\ procs[r].acc_norm # <<0, 0>>
             => procs[r].acc_norm
                  = <<Cardinality({i \in 1..NumExamples : env.hits[i]}), NumExamples>>

\* the master has written the validation line of step s, if it had one to write
PastValLog(s) ==
    \/ procs[0].step > s
    \/ /\ procs[0].step = s
       /\ procs[0].pc \in {"hella", "hella_reduce1", "hella_reduce2", "hella_log",
                           "train", "micro", "grad_sync", "loss_reduce", "clip",
                           "set_lr", "opt_step", "log_train"}

\* the number a sequence of decimal digits denotes
RECURSIVE DigitsValue(_)
DigitsValue(d) ==
    IF d = <<>> THEN 0 ELSE 10 * DigitsValue(SubSeq(d, 1, Len(d) - 1)) + d[Len(d)]

\* the steps of the save events so far
SavedSteps == {hist[0].saves[k] : k \in 1..Len(hist[0].saves)}

(***************************************************************************)
(* C19: checkpoints are written on a fixed cadence by the master only: one *)
(* is saved at step s if and only if s > 0 and s is a multiple of the      *)
(* checkpoint interval or the final step max_steps - 1, never at step 0;   *)
(* each save event writes its own file, named by the step number padded    *)
(* with zeros to five digits, so no two save events write the same file;   *)
(* the record holds the model state, the config, that step number and      *)
(* that step's validation loss.                                            *)
(***************************************************************************)
C19_CheckpointCadence ==
    /\ \A o \in fileOps : o.file = "checkpoint" => o.rank = 0
    /\ \A r \in TRanks : r # 0 => hist[r].saves = <<>>
    /\ \A s \in SavedSteps :
         s \in Steps /\ s > 0 /\ (s % ckpt_every = 0 \/ s = max_steps - 1)
    /\ \A s \in Steps :
         (PastValLog(s) /\ s > 0 /\ (s % ckpt_every = 0 \/ s = max_steps - 1))
            => s \in SavedSteps
    /\ Cardinality(DOMAIN checkpoints) = Len(hist[0].saves)
    /\ \A f \in DOMAIN checkpoints :
         /\ Len(f[3]) >= 5
         /\ DigitsValue(f[3]) \in SavedSteps
         /\ checkpoints[f].step = DigitsValue(f[3])
         /\ checkpoints[f].val_loss.step = checkpoints[f].step
         /\ checkpoints[f].val_loss.reduced = env.ddp
         /\ checkpoints[f].model = checkpoints[f].step
         /\ checkpoints[f].config = "GPTConfig"

\* the master of a multi-process run has finished the loop: a checkpoint at a
\* multiple of the interval and another one at the final step, and none at step 0
C19_Witness ==
    /\ procs[0].pc = "done"
    /\ Cardinality(TRanks) > 1
    /\ Cardinality(DOMAIN checkpoints) >= 2
    /\ \E s \in SavedSteps : s % ckpt_every = 0
    /\ \E s \in SavedSteps : s % ckpt_every # 0 /\ s = max_steps - 1

\* the lines of the log written for step s with the given tag
LinesOf(s, tag) ==
    {i \in 1..Len(log_file.lines) :
        log_file.lines[i].text[1] = s /\ log_file.lines[i].text[2] = tag}

\* the master is inside the evaluation sections of its step
InEval == procs[0].pc \in {"val", "val_reduce", "val_log", "hella", "hella_reduce1",
                           "hella_reduce2", "hella_log"}

(***************************************************************************)
(* C20: the metrics log is append-only once training has started: nothing  *)
(* written to it is ever removed; every line has the form                  *)
(* "<step> <tag> <value>" with tag in {train, val, hella}; every training  *)
(* step whose update the master has applied and which the master has left  *)
(* has exactly one train line; every evaluation step the master has left   *)
(* has exactly one val line and one hella line.                            *)
(***************************************************************************)
C20_AppendOnlyLog ==
    /\ \A o \in fileOps : o.file = "log" => o.lost = 0
    /\ \A i \in 1..Len(log_file.lines) :
         /\ Len(log_file.lines[i].text) = 3
         /\ log_file.lines[i].text[1] \in Steps
         /\ log_file.lines[i].text[2] \in {"train", "val", "hella"}
    /\ \A s \in Steps :
         /\ Cardinality(LinesOf(s, "train")) <= 1
         /\ Cardinality(LinesOf(s, "val")) <= 1
         /\ Cardinality(LinesOf(s, "hella")) <= 1
         /\ (hist[0].updates > s /\ ~(procs[0].step = s /\ procs[0].pc = "log_train"))
              => Cardinality(LinesOf(s, "train")) = 1
         /\ ((procs[0].step > s \/ (procs[0].step = s /\ ~InEval))
               /\ s \in hist[0].valSteps /\ LinesOf(s, "val") # {})
              => Cardinality(LinesOf(s, "hella")) = 1

(***************************************************************************)
(* get_most_likely_row (lines 272-289).  The logits of a position are      *)
(* represented by the token they favour; F.cross_entropy of a position is  *)
(* low when the target is the favoured token and high otherwise.  Averages *)
(* are kept as pairs <<sum, count>> and compared by cross-multiplication.  *)
(* The mask of a row marks its completion, which is never empty and starts *)
(* after the first token.                                                  *)
(***************************************************************************)
Vocab == 0..(VocabSize - 1)

RECURSIVE SeqSum(_)
SeqSum(q) == IF q = <<>> THEN 0 ELSE q[1] + SeqSum(Tail(q))

\* line 278, reduction='none': the loss of one position
cross_entropy(logit, target) == IF target = logit THEN 1 ELSE 3

shift_maskUnshifted(m) == ButLast(m)

\* line 281: mask[..., 1:]
shift_mask(m) == ButFirst(m)

\* line 288: the index of the first minimal quotient
argmin(avg) ==
    (CHOOSE k \in 1..Len(avg) :
        /\ \A j \in 1..Len(avg) : avg[k][1] * avg[j][2] <= avg[j][1] * avg[k][2]
        /\ \A j \in 1..(k - 1) : avg[j][1] * avg[k][2] > avg[k][1] * avg[j][2]) - 1

get_most_likely_row(tokens, mask, logits) ==
    LET rows == 1..Len(tokens)
        shift_logits == [r \in rows |-> ButLast(logits[r])]
        shift_tokens == [r \in rows |-> ButFirst(tokens[r])]
        shift_losses == [r \in rows |->
                           [t \in 1..Len(shift_tokens[r]) |->
                              cross_entropy(shift_logits[r][t], shift_tokens[r][t])]]
        masked_shift_losses == [r \in rows |->
                                  [t \in 1..Len(shift_losses[r]) |->
                                     shift_losses[r][t] * shift_mask(mask[r])[t]]]
        sum_loss == [r \in rows |-> SeqSum(masked_shift_losses[r])]
        avg_loss == [r \in rows |-> <<sum_loss[r], SeqSum(shift_mask(mask[r]))>>]
    IN  argmin(avg_loss)

\* the masks render_example builds: a non-empty completion after the first token
Masks == {m \in [1..SeqLen -> {0, 1}] : \E t \in 2..SeqLen : m[t] = 1}

InitRow ==
    /\ ex_tokens \in [1..NumRows -> [1..SeqLen -> Vocab]]
    /\ ex_mask \in [1..NumRows -> Masks]
    /\ ex_logits \in [1..NumRows -> [1..SeqLen -> Vocab]]
    /\ row_ret = [done |-> FALSE, pred_norm |-> 0]
    /\ lr_it = 0
    /\ lr_ret = [kind |-> "none", value |-> 0]
    /\ enc_tokens = <<>>
    /\ xgen = <<>>
    /\ printed = <<>>
    /\ topk_probs = <<>>
    /\ topk_indices = <<>>
    /\ NoRun

\* line 444: pred_norm = get_most_likely_row(tokens, mask, logits)
RowCall ==
    /\ ~row_ret.done
    /\ row_ret' = [done |-> TRUE,
                   pred_norm |-> get_most_likely_row(ex_tokens, ex_mask, ex_logits)]
    /\ UNCHANGED <<files, fvars, tvars, lr_it, lr_ret, ex_tokens, ex_mask, ex_logits,
                   enc_tokens, xgen, printed, topk_probs, topk_indices>>

NextRow == RowCall

SpecRow == InitRow /\ [][NextRow]_vars

\* the loss of row r summed over its completion: the loss of predicting token
\* t + 1 from position t, counted where mask[t + 1] = 1
RECURSIVE RegionLoss(_, _)
RegionLoss(r, t) ==
    IF t = 0 THEN 0
    ELSE RegionLoss(r, t - 1)
         + (IF ex_mask[r][t + 1] = 1
            THEN (IF ex_tokens[r][t + 1] = ex_logits[r][t] THEN 1 ELSE 3)
            ELSE 0)

RegionSize(r) == Cardinality({t \in 2..SeqLen : ex_mask[r][t] = 1})

\* row a's average loss over its completion is below row b's
Lower(a, b) ==
    RegionLoss(a, SeqLen - 1) * RegionSize(b) < RegionLoss(b, SeqLen - 1) * RegionSize(a)

(***************************************************************************)
(* C14: get_most_likely_row returns the index of the row with the lowest   *)
(* average next-token loss over its completion region (tokens and mask     *)
(* shifted by one, the sum divided by the number of ones of the shifted    *)
(* mask): no row has a lower average than the returned one, and a row      *)
(* whose average is strictly lower than every other row's is the one       *)
(* returned.                                                               *)
(***************************************************************************)
C14_LowestAverageLoss ==
    row_ret.done =>
        /\ row_ret.pred_norm \in 0..(NumRows - 1)
        /\ \A j \in 1..NumRows : ~Lower(j, row_ret.pred_norm + 1)
        /\ \A k \in 1..NumRows :
             (\A j \in 1..NumRows \ {k} : Lower(k, j)) => row_ret.pred_norm = k - 1

\* the last row is returned: its completion has strictly the lowest average,
\* and it differs from the first row in tokens and in mask
C14_Witness ==
    /\ row_ret.done
    /\ row_ret.pred_norm = NumRows - 1
    /\ \A j \in 1..(NumRows - 1) : Lower(NumRows, j)
    /\ ex_mask[1] # ex_mask[NumRows]
    /\ ex_tokens[1] # ex_tokens[NumRows]

(***************************************************************************)
(* get_lr as a function of its argument: one call with any argument from   *)
(* 0 to MaxIt, which returns a learning rate or raises AssertionError.     *)
(***************************************************************************)
InitLr ==
    /\ lr_it \in 0..MaxIt
    /\ lr_ret = [kind |-> "none", value |-> 0]
    /\ ex_tokens = <<>>
    /\ ex_mask = <<>>
    /\ ex_logits = <<>>
    /\ row_ret = [done |-> FALSE, pred_norm |-> 0]
    /\ enc_tokens = <<>>
    /\ xgen = <<>>
    /\ printed = <<>>
    /\ topk_probs = <<>>
    /\ topk_indices = <<>>
    /\ NoRun

\* lr = get_lr(it)
LrCall ==
    /\ lr_ret.kind = "none"
    /\ lr_ret' = IF get_lr_asserts(lr_it)
                 THEN [kind |-> "AssertionError", value |-> 0]
                 ELSE [kind |-> "value", value |-> get_lr(lr_it)]
    /\ UNCHANGED <<files, fvars, tvars, lr_it, ex_tokens, ex_mask, ex_logits, row_ret,
                   enc_tokens, xgen, printed, topk_probs, topk_indices>>

NextLr == LrCall

SpecLr == InitLr /\ [][NextLr]_vars

(***************************************************************************)
(* C15, as stated: at every warmup step, the last one included,            *)
(* get_lr(step) is strictly below max_lr.                                  *)
(***************************************************************************)
C15_BelowPeakInWarmup ==
    (lr_ret.kind = "value" /\ lr_it < warmup_steps) => lr_ret.value < max_lr

(***************************************************************************)
(* C15, amended: during warmup get_lr(step) is max_lr * (step + 1) /       *)
(* warmup_steps, which never exceeds max_lr, is strictly below it before   *)
(* the last warmup step and equals it at step warmup_steps - 1.            *)
(***************************************************************************)
C15_PeakAtLastWarmupStep ==
    (lr_ret.kind # "none" /\ lr_it < warmup_steps) =>
        /\ lr_ret.kind = "value"
        /\ lr_ret.value * warmup_steps <= max_lr * (lr_it + 1)
        /\ max_lr * (lr_it + 1) < (lr_ret.value + 1) * warmup_steps
        /\ lr_ret.value <= max_lr
        /\ lr_ret.value = max_lr <=> lr_it = warmup_steps - 1

\* the call for the last warmup step has returned the peak
C15_Witness ==
    /\ lr_it = warmup_steps - 1
    /\ lr_ret.kind = "value"
    /\ lr_ret.value = max_lr

(***************************************************************************)
(* C16: the learning rate reaches its floor exactly at the end of the      *)
(* schedule: get_lr(max_steps) = min_lr, and get_lr(step) = min_lr =       *)
(* 0.1 * max_lr for every step > max_steps.                                *)
(***************************************************************************)
C16_FloorFromMaxSteps ==
    (lr_ret.kind # "none" /\ lr_it >= max_steps) =>
        /\ lr_ret.kind = "value"
        /\ lr_ret.value = min_lr
        /\ 10 * lr_ret.value = max_lr

\* the call for step max_steps, the end of the cosine phase, has returned
C16_Witness ==
    /\ lr_it = max_steps
    /\ lr_ret.kind = "value"
    /\ lr_ret.value < max_lr

(***************************************************************************)
(* C17: in the cosine phase (warmup_steps <= step <= max_steps) the        *)
(* quotient decay_ratio lies in [0, 1], so the assertion of line 381 never *)
(* fails for a step >= 0; a quotient outside [0, 1] ends the call with an  *)
(* AssertionError, never with a value computed from a clamped quotient.    *)
(***************************************************************************)
C17_DecayRatioInRange ==
    lr_ret.kind # "none" =>
        /\ lr_ret.kind = "value"
        /\ (warmup_steps <= lr_it /\ lr_it <= max_steps)
             => /\ 0 <= lr_it - warmup_steps
                /\ lr_it - warmup_steps <= max_steps - warmup_steps
                /\ min_lr <= lr_ret.value
                /\ lr_ret.value <= max_lr

\* a call inside the cosine phase, strictly between its ends, has returned
C17_Witness ==
    /\ warmup_steps < lr_it
    /\ lr_it < max_steps
    /\ lr_ret.kind = "value"
    /\ min_lr < lr_ret.value
    /\ lr_ret.value < max_lr

(***************************************************************************)
(* The sampling loop (lines 462-495; the same loop closes                  *)
(* src/train_gpt2.py, lines 196-222).  The prompt is whatever the          *)
(* tokenizer returns; top-k sampling appends to every sequence one token   *)
(* of the vocabulary.                                                      *)
(***************************************************************************)
SampleVocab == 0..(SampleVocabSize - 1)

InitSample ==
    /\ \E n \in 1..MaxPrompt : enc_tokens \in [1..n -> SampleVocab]
    /\ xgen = [i \in 1..num_return_sequences |-> enc_tokens]
    /\ printed = <<>>
    /\ topk_probs = <<>>
    /\ topk_indices = <<>>
    /\ lr_it = 0
    /\ lr_ret = [kind |-> "none", value |-> 0]
    /\ ex_tokens = <<>>
    /\ ex_mask = <<>>
    /\ ex_logits = <<>>
    /\ row_ret = [done |-> FALSE, pred_norm |-> 0]
    /\ NoRun

loop_continuesInclusive(x) == Len(x[1]) <= max_length

\* line 472: while xgen.size(1) < max_length
loop_continues(x) == Len(x[1]) < max_length

\* lines 476-478: the logits of the last position of every row.  The network is
\* frozen while sampling and works on each row of the batch by itself; it is
\* stood for by a function of the row whose ranking of the vocabulary changes
\* with the row's tokens.
last_logits(x) ==
    [i \in DOMAIN x |-> [tok \in SampleVocab |-> (tok + SeqSum(x[i])) % SampleVocabSize]]

\* line 480: F.softmax(logits, dim=-1), up to the row's normalising factor
softmax(logits) ==
    [i \in DOMAIN logits |-> [tok \in DOMAIN logits[i] |-> 2 ^ logits[i][tok]]]

\* how many entries of the row come before entry t in descending order
rank_in(row, t) ==
    Cardinality({u \in DOMAIN row :
                    row[u] > row[t] \/ (row[u] = row[t] /\ u < t)})

\* the token ids of the k largest entries of one row, largest first
topk_row(row, k) ==
    [j \in 1..k |-> CHOOSE t \in DOMAIN row : rank_in(row, t) = j - 1]

\* line 483: torch.topk(probs, 50, dim=-1): per row, the k largest
\* probabilities and their token ids, largest first
topk(probs, k) ==
    LET idx == [i \in DOMAIN probs |-> topk_row(probs[i], k)]
    IN  [values |-> [i \in DOMAIN probs |-> [j \in 1..k |-> probs[i][idx[i][j]]]],
         indices |-> idx]

\* line 486: torch.multinomial(topk_probs, 1, generator=sample_rng): per row the
\* position of one entry of positive weight
multinomial(input) ==
    {ix \in [DOMAIN input -> 0..(top_k - 1)] :
        \A i \in DOMAIN input : input[i][ix[i] + 1] > 0}

gatherFirstRow(input, index) ==
    [i \in DOMAIN index |-> input[1][index[i] + 1]]

\* line 488: torch.gather(topk_indices, -1, ix)
gather(input, index) ==
    [i \in DOMAIN index |-> input[i][index[i] + 1]]

\* lines 473-483: the first half of an iteration, up to torch.topk
SampleForward ==
    /\ printed = <<>>
    /\ loop_continues(xgen)
    /\ topk_indices = <<>>
    /\ LET probs == softmax(last_logits(xgen))
           tk == topk(probs, top_k)
       IN  /\ topk_probs' = tk.values
           /\ topk_indices' = tk.indices
    /\ UNCHANGED <<files, fvars, tvars, lr_it, lr_ret, ex_tokens, ex_mask, ex_logits,
                   row_ret, enc_tokens, xgen, printed>>

\* lines 486-490: the second half, ix, xcol and torch.cat((xgen, xcol), dim=1)
SampleStep ==
    /\ topk_indices # <<>>
    /\ \E ix \in multinomial(topk_probs) :
         LET xcol == gather(topk_indices, ix)
         IN  xgen' = [i \in 1..num_return_sequences |-> Append(xgen[i], xcol[i])]
    /\ topk_probs' = <<>>
    /\ topk_indices' = <<>>
    /\ UNCHANGED <<files, fvars, tvars, lr_it, lr_ret, ex_tokens, ex_mask, ex_logits,
                   row_ret, enc_tokens, printed>>

\* lines 492-495: tokens = xgen[i, :max_length].tolist(), decoded and printed
SamplePrint ==
    /\ printed = <<>>
    /\ ~loop_continues(xgen)
    /\ topk_indices = <<>>
    /\ printed' = [i \in 1..num_return_sequences |-> PySlice(xgen[i], 0, max_length)]
    /\ UNCHANGED <<files, fvars, tvars, lr_it, lr_ret, ex_tokens, ex_mask, ex_logits,
                   row_ret, enc_tokens, xgen, topk_probs, topk_indices>>

NextSample ==
    \/ SampleForward
    \/ SampleStep
    \/ SamplePrint

SpecSample == InitSample /\ [][NextSample]_vars

\* the loop is a sequential program: it keeps running until it has printed
SpecSampleFair == SpecSample /\ WF_vars(NextSample)

IsPrefix(p, q) == Len(p) <= Len(q) /\ \A k \in 1..Len(p) : q[k] = p[k]

Sequences == 1..num_return_sequences

C18_Shape ==
    /\ Len(xgen) = num_return_sequences
    /\ \A i \in Sequences :
         /\ IsPrefix(enc_tokens, xgen[i])
         /\ Len(xgen[i]) = Len(xgen[1])
         /\ Len(xgen[i]) > Len(enc_tokens) => Len(xgen[i]) <= max_length
    /\ printed # <<>> =>
         /\ Len(printed) = num_return_sequences
         /\ \A i \in Sequences :
              /\ Len(xgen[i]) = (IF Len(enc_tokens) > max_length
                                 THEN Len(enc_tokens) ELSE max_length)
              /\ Len(printed[i]) = max_length
              /\ IsPrefix(printed[i], xgen[i])

C18_Iteration ==
    xgen' # xgen =>
        \A i \in Sequences :
            /\ Len(xgen'[i]) = Len(xgen[i]) + 1
            /\ IsPrefix(xgen[i], xgen'[i])

MovedOn(r) ==
    /\ loaders[r].self.current_shard = ret[r].pre[1]
    /\ loaders[r].self.current_position = ret[r].pre[2] + Stride(loaders[r].self)

\* the feeder went to the next shard (circular), at the rank's base offset
Wrapped(r) ==
    /\ loaders[r].self.current_shard = (ret[r].pre[1] + 1) % NumShards
    /\ loaders[r].self.current_position = BaseOffset(loaders[r].self)

OnStripe(r) ==
    loaders[r].self.current_position % Stride(loaders[r].self)
        = BaseOffset(loaders[r].self)

\* C23 as stated: after a call that returned, exactly one of the two moves has
\* happened, the wrap exactly when the next read of this feeder, the B*T + 1
\* tokens at the advanced position, would run past the shard's token count; the
\* position is congruent to the base offset modulo the stride.
C23_WrapWhenNextReadExceeds ==
    \A r \in Ranks :
        /\ loaders[r].ok => OnStripe(r)
        /\ Returned(r) =>
              LET self == loaders[r].self
                  adv == ret[r].pre[2] + Stride(self)
              IN  /\ MovedOn(r) # Wrapped(r)
                  /\ Wrapped(r) <=> (adv + self.B * self.T + 1 > ret[r].preLen)

\* C23 amended: after a call that returned, exactly one of the two moves has
\* happened, the wrap exactly when the advanced position + B*T*num_processes + 1
\* exceeds the shard's token count (the test of line 262, which with more than
\* one process fires while this feeder's own next read would still fit); the
\* position is congruent to the base offset modulo the stride.
C23_WrapWhenStrideTestFires ==
    \A r \in Ranks :
        /\ loaders[r].ok => OnStripe(r)
        /\ Returned(r) =>
              LET self == loaders[r].self
                  adv == ret[r].pre[2] + Stride(self)
              IN  /\ MovedOn(r) # Wrapped(r)
                  /\ Wrapped(r) <=> (adv + Stride(self) + 1 > ret[r].preLen)

\* A feeder of a two-process run wrapped to a second shard although the B*T + 1
\* tokens at the advanced position were inside the shard it left.
C23_Witness ==
    \E r \in Ranks :
        /\ Returned(r)
        /\ loaders[r].self.num_processes = 2
        /\ NumShards = 2
        /\ Wrapped(r)
        /\ ret[r].pre[2] + Stride(loaders[r].self)
              + loaders[r].self.B * loaders[r].self.T + 1 <= ret[r].preLen

(***************************************************************************)
(* SpecScenario: one feeder with B = 4, T = 8 in a single-process run over *)
(* shards of 1000 tokens, called again and again from its construction.    *)
(***************************************************************************)
Scenario == [B |-> 4, T |-> 8, world_size |-> 1, shard_tokens |-> 1000,
             calls |-> 130]

ScenarioShardCounts == {1, 2}

InitScenario ==
    \E n \in ScenarioShardCounts :
        /\ files = DataDir(n, [s \in 1..n |-> Scenario.shard_tokens])
        /\ loaders = [r \in {0} |->
                        DataLoaderLite(files, Scenario.B, Scenario.T, r,
                                       Scenario.world_size, "train")]
        /\ InitHistory({0}, n)
        /\ NoCalls

ScenarioNextBatch(r) ==
    /\ loaders[r].ok
    /\ Len(sinceReset[r]) < Scenario.calls
    /\ LET self == loaders[r].self
           res == NextBatch(files, self)
       IN  /\ loaders' = [loaders EXCEPT ![r].self = res.self]
           /\ ret' = [ret EXCEPT ![r] = CallRecord(self, res)]
           /\ sinceReset' = [sinceReset EXCEPT ![r] =
                               Append(@, [ok |-> res.ok, x |-> res.x, y |-> res.y])]
           /\ UNCHANGED <<files, pvars, refTrace, readX, passX, dupInPass, passWin,
                          donePass, tvars>>

NextScenario == \E r \in Ranks : ScenarioNextBatch(r)

SpecScenario == InitScenario /\ [][NextScenario]_vars

\* the number of the call that has just returned
CallNo(r) == Len(sinceReset[r])

\* C24 as stated: calls 1 to 125 return tokens of shard 0 and do not wrap; the
\* 126th call wraps and returns the tokens at the base offset of the next shard.
C24_WrapAtCall126 ==
    \A r \in Ranks :
        Returned(r) =>
            /\ CallNo(r) < 126 => (ret[r].src[1] = 0 /\ ~Wrapped(r))
            /\ CallNo(r) = 126 =>
                   (Wrapped(r) /\ ret[r].src = <<1 % NumShards, BaseOffset(loaders[r].self)>>)

\* C24 amended: calls 1 to 30 return tokens of shard 0 and do not wrap; the 31st
\* call returns the tokens at position 960 of shard 0 and then wraps, because
\* 992 + 33 > 1000; the 32nd call returns the tokens at the base offset of the
\* next shard.
C24_WrapAtCall31 ==
    \A r \in Ranks :
        Returned(r) =>
            /\ CallNo(r) < 31 => (ret[r].src[1] = 0 /\ MovedOn(r) /\ ~Wrapped(r))
            /\ CallNo(r) = 31 => (ret[r].src = <<0, 960>> /\ Wrapped(r))
            /\ CallNo(r) = 32 =>
                   ret[r].src = <<1 % NumShards, BaseOffset(loaders[r].self)>>

\* The 32nd call has returned the first window of the second shard.
C24_Witness ==
    \E r \in Ranks :
        /\ Returned(r)
        /\ CallNo(r) = 32
        /\ NumShards = 2
        /\ ret[r].src = <<1, 0>>
        /\ Len(ret[r].x) = Scenario.B
        /\ Len(ret[r].x[1]) = Scenario.T

(***************************************************************************)
(* The loss accumulated over a training step                               *)
(***************************************************************************)
\* the terms are the losses of micro-steps 0, 1, ... of the given step, each
\* computed on the parameters the step started with and divided by gas
TermsOfStep(acc, step, gas) ==
    \A i \in 1..Len(acc) :
        /\ acc[i].div = gas
        /\ acc[i].loss.step = step
        /\ acc[i].loss.micro_step = i - 1
        /\ acc[i].loss.model = step

Feeding(r) == train_loader[r].built /\ train_loader[r].ok

EmptySplit == \E sp \in Splits : Len(files[sp]) = 0

NoStepRun(r) ==
    /\ hist[r].events = <<>>
    /\ hist[r].updates = 0
    /\ hist[r].valSteps = {}
    /\ hist[r].hellaSteps = {}

\* C21: a feeder that was constructed has at least one shard file; when a split
\* has no shard files the process never gets past the construction of its
\* feeders, where it stops with a fatal error, and it runs no evaluation and no
\* training step.
C21_EmptySplitIsFatal ==
    \A r \in TRanks :
        /\ \A l \in {train_loader[r], val_loader[r]} :
               (l.built /\ l.ok) => Len(l.self.shards) > 0
        /\ EmptySplit =>
               /\ procs[r].pc \in {"start", "loaders", "failed"}
               /\ NoStepRun(r)
        /\ (procs[r].pc = "failed" /\ procs[r].err = "no_shards") =>
               /\ EmptySplit
               /\ ~(train_loader[r].ok /\ val_loader[r].built /\ val_loader[r].ok)

\* A process built its training feeder and then failed to construct the
\* validation feeder, whose split has no shard files.
C21_Witness ==
    \E r \in TRanks :
        /\ Len(files["train"]) > 0
        /\ Len(files["val"]) = 0
        /\ train_loader[r].built /\ train_loader[r].ok
        /\ procs[r].pc = "failed"
        /\ procs[r].err = "no_shards"
        /\ NoStepRun(r)

BackendUnavailable == env.ddp /\ ~(env.cuda /\ env.nccl)

\* C22: when RANK selects the multi-process mode and CUDA or the nccl backend is
\* not available, a process stops at start-up with the error of line 310 or 311:
\* it never takes the single-process settings (world size 1, master), builds no
\* feeder and no model, and runs no evaluation and no training step.
C22_NoSilentFallback ==
    \A r \in TRanks :
        BackendUnavailable =>
            /\ procs[r].pc \in {"start", "failed"}
            /\ procs[r].pc = "failed" =>
                   procs[r].err = (IF env.cuda THEN "init_process_group"
                                   ELSE "assert_cuda")
            /\ ~(procs[r].ddp_world_size = 1 /\ procs[r].master_process)
            /\ ~train_loader[r].built
            /\ ~val_loader[r].built
            /\ ~procs[r].is_ddp_model
            /\ NoStepRun(r)

\* A one-process launch with RANK set, CUDA present and nccl missing has stopped
\* in init_process_group.
C22_Witness ==
    \E r \in TRanks :
        /\ env.ddp /\ env.world = 1 /\ env.cuda /\ ~env.nccl
        /\ procs[r].pc = "failed"
        /\ procs[r].err = "init_process_group"

(***************************************************************************)
(* Top-k sampling                                                          *)
(***************************************************************************)
\* the probability the network gives tok after the tokens of one sequence
ProbAfter(sequence, tok) == softmax(last_logits(<<sequence>>))[1][tok]

\* fewer than top_k tokens are more probable than tok after the sequence
AmongTopK(sequence, tok) ==
    Cardinality({u \in SampleVocab : ProbAfter(sequence, u) > ProbAfter(sequence, tok)})
        < top_k

\* C26: in every iteration the token appended to a sequence is one of the top_k
\* most probable tokens of the distribution the network gives after that
\* sequence's own tokens, whatever the other sequences of the batch hold.
C26_TopKOfOwnRow ==
    [][xgen' # xgen =>
          \A i \in Sequences :
              /\ Len(xgen'[i]) = Len(xgen[i]) + 1
              /\ AmongTopK(xgen[i], xgen'[i][Len(xgen'[i])])]_vars

\* Two sequences that have diverged have each been given a second token.
C26_Witness ==
    /\ Len(xgen) = num_return_sequences
    /\ Len(xgen[1]) >= Len(enc_tokens) + 2
    /\ \E i \in Sequences :
          SeqSum(xgen[i]) % SampleVocabSize # SeqSum(xgen[1]) % SampleVocabSize

(***************************************************************************)
(* Collectives and the end of the run                                      *)
(***************************************************************************)
\* the process is inside a blocking collective
Waiting(r) ==
    procs[r].pc \in {"val_reduce", "hella_reduce1", "hella_reduce2", "grad_sync",
                     "loss_reduce"}

\* a launch that passes every start-up check and whose shards hold enough
\* tokens for every rank's first window
GoodLaunch ==
    /\ env.cuda
    /\ env.nccl
    /\ BatchDivides(IF env.ddp THEN env.world ELSE 1)
    /\ \A sp \in Splits :
          /\ Len(files[sp]) > 0
          /\ \A s \in 1..Len(files[sp]) : Len(files[sp][s]) > MaxWorld * B * T

\* C28: in a run that was launched well no process stops before it has done all
\* its steps and torn the process group down, and no process waits in a
\* collective that another process, having stopped, will never enter.
C28_NoWorkerLeftBehind ==
    GoodLaunch =>
        \A r \in TRanks :
            /\ procs[r].pc # "failed"
            /\ procs[r].pc = "done" => procs[r].step = max_steps
            /\ \A q \in TRanks :
                   (Waiting(r) /\ procs[q].ncoll < procs[r].ncoll) =>
                       procs[q].pc \notin {"failed", "done"}

(***************************************************************************)
(* Evaluation and checkpoint precede the step's update                     *)
(***************************************************************************)
\* C29: the validation loss of step s is computed, logged and stored on the
\* parameters after exactly s optimizer updates, before the update of step s:
\* the checkpoint of step s holds those parameters and a validation loss that
\* was computed on them.
C29_EvalBeforeUpdate ==
    /\ \A r \in TRanks :
          procs[r].pc \in {"val_reduce", "val_log"} =>
              /\ hist[r].updates = procs[r].step
              /\ procs[r].val_loss_accum.step = procs[r].step
              /\ procs[r].val_loss_accum.model = procs[r].step
    /\ \A i \in 1..Len(log_file.lines) :
          LET line == log_file.lines[i]
          IN  line.text[2] = "val" =>
                 /\ line.text[3].step = line.text[1]
                 /\ line.text[3].model = line.text[1]
    /\ \A f \in DOMAIN checkpoints :
          /\ checkpoints[f].model = checkpoints[f].step
          /\ checkpoints[f].val_loss.step = checkpoints[f].step
          /\ checkpoints[f].val_loss.model = checkpoints[f].model

\* The master saved the checkpoint of a step after the first and has since
\* made that step's update.
C29_Witness ==
    \E f \in DOMAIN checkpoints :
        /\ checkpoints[f].step >= ckpt_every
        /\ checkpoints[f].model = checkpoints[f].step
        /\ hist[0].updates > checkpoints[f].step
        /\ \E i \in 1..Len(log_file.lines) :
               /\ log_file.lines[i].text[2] = "val"
               /\ log_file.lines[i].text[1] = checkpoints[f].step

====
